---- MODULE Spec2Model ----
(***************************************************************************)
(* Model of the markviewer rendering core (src-tauri/src):                 *)
(*   markdown/special_blocks.rs  extract_special_blocks                    *)
(*   markdown/parser.rs          render_markdown_html                      *)
(*   markdown/images.rs          resolve_image_paths and friends           *)
(*   commands.rs                 render_markdown                           *)
(*                                                                         *)
(* A Rust string is modelled as a sequence of lexemes (TLA+ strings): the  *)
(* fence markers, the line terminators, white space, words, and the        *)
(* pieces of the HTML the code writes.  starts_with, trim, lines,          *)
(* to_lowercase and format! are computed on those sequences.               *)
(***************************************************************************)
EXTENDS Naturals, Integers, Sequences, FiniteSets, TLC

\* ------------------------------------------------------------------ lexemes
\* the three-backtick fence marker (a TLA+ string cannot hold a backtick)
BT == "BBB"
\* the three-tilde fence marker
TL == "~~~"
SP == " "
NL == "\n"
CR == "\r"

\* ------------------------------------------------------- string primitives
\* str::starts_with
StartsWith(s, p) == Len(s) >= Len(p) /\ SubSeq(s, 1, Len(p)) = p

\* char::is_whitespace, on lexemes
IsWhitespace(t) == t \in {SP, NL, CR}

RECURSIVE TrimStart(_)
\* str::trim_start
TrimStart(s) ==
    IF s # <<>> /\ IsWhitespace(Head(s)) THEN TrimStart(Tail(s)) ELSE s

RECURSIVE TrimEnd(_)
\* str::trim_end
TrimEnd(s) ==
    IF s # <<>> /\ IsWhitespace(s[Len(s)])
    THEN TrimEnd(SubSeq(s, 1, Len(s) - 1))
    ELSE s

\* str::trim
Trim(s) == TrimEnd(TrimStart(s))

\* char::to_lowercase on one lexeme: the upper-case spellings the documents
\* of this model use, everything else is already lower case.
LowerLexeme(t) ==
    CASE t = "MERMAID" -> "mermaid"
      [] t = "Mermaid" -> "mermaid"
      [] t = "Chart"   -> "chart"
      [] t = "CHART"   -> "chart"
      [] OTHER         -> t

\* str::to_lowercase
ToLowercase(s) == [k \in 1..Len(s) |-> LowerLexeme(s[k])]

\* One line of str::lines: the terminator is "\n" or "\r\n".
StripCR(l) ==
    IF l # <<>> /\ l[Len(l)] = CR THEN SubSeq(l, 1, Len(l) - 1) ELSE l

RECURSIVE LinesFrom(_, _, _)
LinesFrom(s, k, cur) ==
    IF k > Len(s)
    THEN (IF cur = <<>> THEN <<>> ELSE <<cur>>)
    ELSE IF s[k] = NL
         THEN <<StripCR(cur)>> \o LinesFrom(s, k + 1, <<>>)
         ELSE LinesFrom(s, k + 1, Append(cur, s[k]))

\* str::lines, collected
Lines(s) == LinesFrom(s, 1, <<>>)

\* --------------------------------------------------- special_blocks.rs
\* format!("special-block-{}", block_counter)
PlaceholderId(n) == "special-block-" \o ToString(n)

\* The placeholder div of lines 52-55, with its newline.
PlaceholderDiv(lang_lower, placeholder_id) ==
    <<"<div class=\"special-block ">> \o lang_lower
        \o <<"\" id=\"", placeholder_id, "\" data-block-type=\"">> \o lang_lower
        \o <<"\"></div>", NL>>

\* IsSpecialLang without the to_lowercase of line 40.
IsSpecialLangExact(lang) == lang = <<"mermaid">> \/ lang = <<"chart">>

\* lines 40-41: the reserved language tags, compared after lower-casing
IsSpecialLang(lang) ==
    ToLowercase(lang) = <<"mermaid">> \/ ToLowercase(lang) = <<"chart">>

\* lines 45-49
SpecialBlock(lang, content, n) ==
    [block_type     |-> ToLowercase(lang),
     content        |-> Trim(content),
     placeholder_id |-> PlaceholderId(n)]

\* RegularFence with the content trimmed as a special block's content is.
RegularFenceTrimmed(fence, lang, content) ==
    <<fence>> \o lang \o <<NL>> \o Trim(content) \o <<fence, NL>>

\* lines 58-60: a regular code block, kept for the markdown engine
RegularFence(fence, lang, content) ==
    <<fence>> \o lang \o <<NL>> \o content \o <<fence, NL>>

\* UnclosedFence without lines 87-90: the open block is dropped.
UnclosedFenceDropped(fence, lang, content) == <<>>

\* UnclosedFence with a closing marker supplied for the open block.
UnclosedFenceClosed(fence, lang, content) ==
    <<fence>> \o lang \o <<NL>> \o content \o <<fence, NL>>

\* lines 88-89: the unclosed block flushed at the end of the input
UnclosedFence(fence, lang, content) ==
    <<fence>> \o lang \o <<NL>> \o content

\* lines 32-33
IsFenceLine(trimmed) == StartsWith(trimmed, <<BT>>) \/ StartsWith(trimmed, <<TL>>)

\* line 36
FenceOf(trimmed) == IF StartsWith(trimmed, <<BT>>) THEN BT ELSE TL

\* line 71: trimmed[3..].trim()
LangOf(trimmed) == Trim(Tail(trimmed))

\* ------------------------------------------------------------ images.rs
\* The lexemes that are one character long.
SingleChar == {"/", "\\", ":", ".", "C", SP, "\""}

\* line 61: src.chars().nth(1) == Some(':')
SecondCharIsColon(src) ==
    Len(src) >= 2 /\ src[1] \in SingleChar /\ src[2] = ":"

\* line 62: src.replace('\\', "/")
ReplaceBackslash(src) == [k \in 1..Len(src) |-> IF src[k] = "\\" THEN "/" ELSE src[k]]

\* The marker of lines 57, 62 and 77.
LocalFileMarker == "__LOCAL_FILE__:"

RECURSIVE LastSlash(_, _)
LastSlash(p, k) == IF k = 0 \/ p[k] = "/" THEN k ELSE LastSlash(p, k - 1)

\* lines 66-67: Path::parent, and the path itself where it has none
BaseDir(base) ==
    LET k == LastSlash(base, Len(base)) IN
    IF base = <<>> \/ base = <<"/">> THEN base
    ELSE IF k = 0 THEN <<>>
    ELSE IF k = 1 THEN <<"/">>
    ELSE SubSeq(base, 1, k - 1)

\* Path::join of the file name of src alone, its directories left out.
JoinPathFileName(dir, src) ==
    LET name == SubSeq(src, LastSlash(src, Len(src)) + 1, Len(src)) IN
    IF dir = <<>> THEN name
    ELSE IF dir[Len(dir)] = "/" THEN dir \o name
    ELSE dir \o <<"/">> \o name

\* line 68: Path::join of a relative path
JoinPath(dir, src) ==
    IF dir = <<>> THEN src
    ELSE IF dir[Len(dir)] = "/" THEN dir \o src
    ELSE dir \o <<"/">> \o src

RECURSIVE NormalizeFrom(_, _, _)
\* The components of an absolute path with "." and ".." resolved.
NormalizeFrom(p, k, acc) ==
    IF k > Len(p) THEN acc
    ELSE IF p[k] \in {"/", "."} THEN NormalizeFrom(p, k + 1, acc)
    ELSE IF p[k] = ".."
         THEN NormalizeFrom(p, k + 1,
                            IF acc = <<>> THEN acc ELSE SubSeq(acc, 1, Len(acc) - 1))
    ELSE NormalizeFrom(p, k + 1, Append(acc, p[k]))

RECURSIVE Slashed(_)
Slashed(cs) == IF cs = <<>> THEN <<>> ELSE <<"/", Head(cs)>> \o Slashed(Tail(cs))

\* Where a symbolic link of the file system leads.
LinkTarget == <<"/", "real", "/", "photo.png">>

\* Path::canonicalize, and a lexical clean-up of the joined path when it
\* fails.
CanonicalizeOrNormalized(resolved, fs) ==
    CASE fs \in {"missing", "file"} ->
            LET cs == NormalizeFrom(resolved, 1, <<>>)
            IN IF cs = <<>> THEN <<"/">> ELSE Slashed(cs)
      [] fs = "link" -> LinkTarget

\* lines 71-73: Path::canonicalize, or the joined path when it fails.  fs is
\* what the file system holds at the path: nothing, a plain file, or a link.
CanonicalizeOr(resolved, fs) ==
    CASE fs = "missing" -> resolved
      [] fs = "file"    -> LET cs == NormalizeFrom(resolved, 1, <<>>)
                           IN IF cs = <<>> THEN <<"/">> ELSE Slashed(cs)
      [] fs = "link"    -> LinkTarget

\* resolve_single_path without the data URI test of lines 40-43.
resolve_single_path_no_data(src, base_path, fs) ==
    IF StartsWith(src, <<"http://">>) \/ StartsWith(src, <<"https://">>) THEN src
    ELSE IF StartsWith(src, <<"asset://">>) THEN src
    ELSE IF StartsWith(src, <<"file://">>) THEN Tail(src)
    ELSE IF StartsWith(src, <<"/">>) THEN <<LocalFileMarker>> \o src
    ELSE IF SecondCharIsColon(src) THEN <<LocalFileMarker>> \o ReplaceBackslash(src)
    ELSE <<LocalFileMarker>> \o CanonicalizeOr(JoinPath(BaseDir(base_path), src), fs)

\* lines 34-78
resolve_single_path(src, base_path, fs) ==
    IF StartsWith(src, <<"http://">>) \/ StartsWith(src, <<"https://">>) THEN src
    ELSE IF StartsWith(src, <<"data:">>) THEN src
    ELSE IF StartsWith(src, <<"asset://">>) THEN src
    ELSE IF StartsWith(src, <<"file://">>) THEN Tail(src)
    ELSE IF StartsWith(src, <<"/">>) THEN <<LocalFileMarker>> \o src
    ELSE IF SecondCharIsColon(src) THEN <<LocalFileMarker>> \o ReplaceBackslash(src)
    ELSE <<LocalFileMarker>> \o CanonicalizeOr(JoinPath(BaseDir(base_path), src), fs)

RECURSIVE FirstAt(_, _, _, _)
\* The first position from k on where the lexeme is one of ts, 0 when none
\* comes before a lexeme of stop.
FirstAt(h, k, ts, stop) ==
    IF k > Len(h) THEN 0
    ELSE IF h[k] \in ts THEN k
    ELSE IF h[k] \in stop THEN 0
    ELSE FirstAt(h, k + 1, ts, stop)

RECURSIVE SkipWhitespace(_, _)
SkipWhitespace(h, k) ==
    IF k <= Len(h) /\ IsWhitespace(h[k]) THEN SkipWhitespace(h, k + 1) ELSE k

\* The lexemes that hold a > and those that hold a double quote.
GtLexemes == {">", "<p>", "</p>", "\"></div>", "</code>", "</pre>", "\">", "</span>"}
QuoteLexemes ==
    {"\"", "src=\"", "alt=\"", "<div class=\"special-block ", "\" id=\"",
     "\" data-block-type=\"", "\"></div>", " lang=\"", "\">", "<span class=\"",
     "class=\"c\""}

\* line 5: one match of <img\s+([^>]*?)src="([^"]+)"([^>]*)> that starts at k
MatchImg(h, k) ==
    LET a == SkipWhitespace(h, k + 1)
        s == FirstAt(h, a, {"src=\""}, GtLexemes)
        q == IF s = 0 THEN 0 ELSE FirstAt(h, s + 1, QuoteLexemes, {})
        g == IF q = 0 THEN 0 ELSE FirstAt(h, q + 1, GtLexemes, {})
        ok == /\ h[k] = "<img" /\ a > k + 1
              /\ s # 0
              /\ q > s + 1 /\ h[q] = "\""
              /\ g # 0 /\ h[g] = ">"
    IN  IF ok
        THEN [ok |-> TRUE, before |-> SubSeq(h, a, s - 1), src |-> SubSeq(h, s + 1, q - 1),
              after |-> SubSeq(h, q + 1, g - 1), end |-> g]
        ELSE [ok |-> FALSE]

RECURSIVE TrimEndSlashes(_)
\* line 16: after.trim_end_matches('/')
TrimEndSlashes(s) ==
    IF s # <<>> /\ s[Len(s)] = "/" THEN TrimEndSlashes(SubSeq(s, 1, Len(s) - 1)) ELSE s

\* lines 9-21: what one match is replaced by
ImgTag(before, resolved_src, after) ==
    LET after_clean == Trim(TrimEndSlashes(after)) IN
    IF after_clean = <<>>
    THEN <<"<img", SP>> \o before \o <<"src=\"">> \o resolved_src \o <<"\"", SP, "/", ">">>
    ELSE <<"<img", SP>> \o before \o <<"src=\"">> \o resolved_src \o <<"\"", SP>>
             \o after_clean \o <<SP, "/", ">">>

RECURSIVE ResolveHtmlFrom(_, _, _, _)
ResolveHtmlFrom(h, k, base_path, fs) ==
    IF k > Len(h) THEN <<>>
    ELSE LET m == MatchImg(h, k) IN
         IF m.ok
         THEN ImgTag(m.before, resolve_single_path(m.src, base_path, fs), m.after)
                  \o ResolveHtmlFrom(h, m.end + 1, base_path, fs)
         ELSE <<h[k]>> \o ResolveHtmlFrom(h, k + 1, base_path, fs)

\* lines 4-24: replace_all over the HTML
resolve_image_paths(h, base_path, fs) == ResolveHtmlFrom(h, 1, base_path, fs)

\* line 83: one match of !\[([^\]]*)\]\(([^)]+)\) that starts at k
MatchMdImg(m, k) ==
    LET b == FirstAt(m, k + 1, {"](", "]"}, {})
        c == IF b = 0 THEN 0 ELSE FirstAt(m, b + 1, {")"}, {})
        ok == m[k] = "![" /\ b # 0 /\ m[b] = "](" /\ c > b + 1
    IN  IF ok
        THEN [ok |-> TRUE, alt |-> SubSeq(m, k + 1, b - 1), src |-> SubSeq(m, b + 1, c - 1),
              end |-> c]
        ELSE [ok |-> FALSE]

RECURSIVE ResolveMdFrom(_, _, _, _)
ResolveMdFrom(m, k, base_path, fs) ==
    IF k > Len(m) THEN <<>>
    ELSE LET x == MatchMdImg(m, k) IN
         IF x.ok
         THEN <<"![">> \o x.alt \o <<"](">> \o resolve_single_path(x.src, base_path, fs)
                  \o <<")">> \o ResolveMdFrom(m, x.end + 1, base_path, fs)
         ELSE <<m[k]>> \o ResolveMdFrom(m, k + 1, base_path, fs)

\* lines 82-93
resolve_markdown_image_paths(m, base_path, fs) == ResolveMdFrom(m, 1, base_path, fs)

\* ------------------------------------------------------- highlighter.rs
\* The grammars of the registry: name, tokens (its names) and extensions.
SyntaxSet ==
    { [name |-> "Rust", scope |-> "source rust", tokens |-> {"rust"}, extensions |-> {"rs"}],
      [name |-> "Plain Text", scope |-> "text plain", tokens |-> {"plain text"},
       extensions |-> {"txt"}] }

\* SyntaxSet::find_syntax_by_token: by extension, then by name
find_syntax_by_token(lang) ==
    { x \in SyntaxSet : Len(lang) = 1 /\ lang[1] \in x.tokens \cup x.extensions }

\* SyntaxSet::find_syntax_by_extension
find_syntax_by_extension(lang) ==
    { x \in SyntaxSet : Len(lang) = 1 /\ lang[1] \in x.extensions }

\* SyntaxSet::find_syntax_plain_text
find_syntax_plain_text == CHOOSE x \in SyntaxSet : x.name = "Plain Text"

\* The HTML escaping of one lexeme: & < > and the double quote.
EscapeLexeme(t) ==
    CASE t = "<div class=\"special-block " -> "&lt;div class=&quot;special-block "
      [] t = "\" id=\""                    -> "&quot; id=&quot;"
      [] t = "\" data-block-type=\""       -> "&quot; data-block-type=&quot;"
      [] t = "\"></div>"                   -> "&quot;&gt;&lt;/div&gt;"
      [] OTHER                             -> t

Escape(s) == [k \in 1..Len(s) |-> EscapeLexeme(s[k])]

\* highlight_code with the plain-text grammar for every language.
highlight_code_plain_text(code, lang) ==
    <<"<span class=\"", find_syntax_plain_text.scope, "\">">> \o Escape(code) \o <<"</span>">>

\* lines 17-31
highlight_code(code, lang) ==
    LET by_token == find_syntax_by_token(lang)
        by_ext   == find_syntax_by_extension(lang)
        syntax   == IF by_token # {} THEN CHOOSE x \in by_token : TRUE
                    ELSE IF by_ext # {} THEN CHOOSE x \in by_ext : TRUE
                    ELSE find_syntax_plain_text
    IN  <<"<span class=\"", syntax.scope, "\">">> \o Escape(code) \o <<"</span>">>

\* ------------------------------------------------------------- parser.rs
\* lines 34-68: the three hooks of SyntectAdapter, as the engine calls them
\* for one fenced block (github_pre_lang: the language is an attribute of pre)
CodeBlock(lang, code) ==
    (IF lang = <<>> THEN <<"<pre", ">">> ELSE <<"<pre", " lang=\"">> \o lang \o <<"\"", ">">>)
        \o <<"<code", ">">>
        \o highlight_code(code, IF lang = <<>> THEN <<"text">> ELSE lang)
        \o <<"</code>", "</pre>", NL>>

\* The lexemes that start an HTML block a blank line ends.
HtmlBlockStart == {"<div class=\"special-block ", "<img"}

RECURSIVE Inline(_, _)
\* The inline content of a paragraph line: an image becomes an img element,
\* raw HTML and text are kept (render.unsafe_).
Inline(s, k) ==
    IF k > Len(s) THEN <<>>
    ELSE LET b == FirstAt(s, k + 1, {"](", "]"}, {})
             c == IF b = 0 THEN 0 ELSE FirstAt(s, b + 1, {")"}, {})
         IN  IF s[k] = "![" /\ b # 0 /\ s[b] = "](" /\ c > b + 1
             THEN <<"<img", SP, "src=\"">> \o SubSeq(s, b + 1, c - 1)
                      \o <<"\"", SP, "alt=\"">> \o SubSeq(s, k + 1, b - 1)
                      \o <<"\"", SP, "/", ">">> \o Inline(s, c + 1)
             ELSE <<s[k]>> \o Inline(s, k + 1)

RECURSIVE RenderFrom(_, _, _, _, _, _)
\* The block structure the markdown engine gives the lines from k on.  mode
\* is the open block: none ("top"), a paragraph, an HTML block, a fenced
\* code block with its marker, info string and content so far.
RenderFrom(ls, k, mode, fence, lang, code) ==
    LET l == ls[k]
        t == TrimStart(l)
        closes == StartsWith(t, <<fence>>) /\ Trim(Tail(t)) = <<>>
        leave == IF mode = "para" THEN <<"</p>", NL>> ELSE <<>>
    IN
    IF k > Len(ls)
    THEN (CASE mode = "para" -> <<"</p>", NL>>
            [] mode = "code" -> CodeBlock(lang, code)
            [] OTHER         -> <<>>)
    ELSE IF mode = "code"
    THEN (IF closes
          THEN CodeBlock(lang, code) \o RenderFrom(ls, k + 1, "top", "", <<>>, <<>>)
          ELSE RenderFrom(ls, k + 1, "code", fence, lang, code \o l \o <<NL>>))
    ELSE IF t = <<>>
    THEN leave \o RenderFrom(ls, k + 1, "top", "", <<>>, <<>>)
    ELSE IF mode = "html"
    THEN l \o <<NL>> \o RenderFrom(ls, k + 1, "html", "", <<>>, <<>>)
    ELSE IF IsFenceLine(t)
    THEN leave \o RenderFrom(ls, k + 1, "code", FenceOf(t), LangOf(t), <<>>)
    ELSE IF Head(t) \in HtmlBlockStart
    THEN leave \o l \o <<NL>> \o RenderFrom(ls, k + 1, "html", "", <<>>, <<>>)
    ELSE (IF mode = "para" THEN <<NL>> ELSE <<"<p>">>)
             \o Inline(Trim(l), 1) \o RenderFrom(ls, k + 1, "para", "", <<>>, <<>>)

\* lines 71-80: markdown_to_html_with_plugins under the options of lines 6-29
render_markdown_html(md) == RenderFrom(Lines(md), 1, "top", "", <<>>, <<>>)

\* --------------------------------------------------------------- documents
\* The longest document, in lines, that Init draws.
MaxLines == 4

\* A line that is, lexeme for lexeme, the placeholder div of block 0.
RawPlaceholder ==
    <<"<div class=\"special-block ", "mermaid", "\" id=\"", "special-block-0",
      "\" data-block-type=\"", "mermaid", "\"></div>">>

\* The lines documents are made of.
LineSet ==
    { <<SP, "![", "alt", "](", "a.png", ")", SP>>,
      <<BT, "mermaid">>,
      <<BT, "MERMAID">>,
      <<TL, "Chart">>,
      <<SP, BT, SP, "rust">>,
      <<BT>>,
      <<TL>>,
      RawPlaceholder }

\* The line terminator of a document, and what follows its last line.
Terminators ==
    { <<<<NL>>, <<>>>>, <<<<CR, NL>>, <<CR, NL>>>>, <<<<CR, CR, NL>>, <<>>>> }

RECURSIVE JoinLines(_, _, _)
JoinLines(ls, eol, last) ==
    IF ls = <<>> THEN <<>>
    ELSE IF Len(ls) = 1 THEN Head(ls) \o last
    ELSE Head(ls) \o eol \o JoinLines(Tail(ls), eol, last)

Documents ==
    { JoinLines(ls, t[1], t[2]) :
        ls \in UNION { [1..n -> LineSet] : n \in 0..MaxLines }, t \in Terminators }

\* Option<T>: None, Some(x)
None == <<>>
Some(x) == <<x>>

\* RenderOptions, commands.rs lines 21-27
OptionSet ==
    { [theme |-> "light", base_path |-> b] :
        b \in {None, Some(<<"/", "docs", "/", "file.md">>)} }

\* What the file system holds at a path that is canonicalized.
FsSet == {"missing", "file", "link"}

\* The most images in one text given to the resolver alone.
MaxImages == 2

\* The image targets and the base paths the resolver is given.
SrcSet ==
    { <<"http://", "host", "/", "a.png">>,
      <<"https://", "host", "/", "a.png">>,
      <<"data:", "image/png;base64,ABC">>,
      <<"asset://", "localhost", "/", "a.png">>,
      <<"file://", "/", "img", "/", "a.png">>,
      <<"/", "img", "/", "a.png">>,
      <<"C", ":", "\\", "img", "\\", "a.png">>,
      <<"a.png">>,
      <<".", "/", "img", "/", "a.png">>,
      <<"..", "/", "a.png">>,
      <<"img", "/", "a.png">> }

BasePathSet ==
    { <<"/", "docs", "/", "file.md">>, <<"/", "file.md">>, <<"file.md">> }

\* An img element as authors and the markdown engine write it.
HtmlImg(src, form) ==
    IF form = "bare"
    THEN <<"<img", SP, "src=\"">> \o src \o <<"\"", ">">>
    ELSE <<"<img", SP, "class=\"c\"", SP, "src=\"">> \o src
             \o <<"\"", SP, "alt=\"", "alt", "\"", SP, "/", ">">>

\* A markdown image.
MdImg(src) == <<"![", "alt", "](">> \o src \o <<")">>

RECURSIVE Concat(_)
Concat(ss) == IF ss = <<>> THEN <<>> ELSE Head(ss) \o Concat(Tail(ss))

\* ------------------------------------------------------------------- state
VARIABLES
    markdown,       \* the argument of render_markdown
    options,        \* its RenderOptions
    lines,          \* markdown.lines()
    i,              \* the line the for loop of line 28 is at
    blocks, result, in_code_block, code_fence, code_lang, code_content,
    block_counter,  \* the locals of extract_special_blocks, lines 20-26
    html,           \* the html of render_markdown
    fs,             \* what canonicalize found
    srcs,           \* the image targets of a text given to the resolver alone
    resolved,       \* what the resolver returned for it
    first,          \* the processed markdown of a first extraction, given to a second
    once,           \* the state of the Lazy cell of SYNTAX_SET
    registry,       \* what the cell holds
    init_count,     \* how many times the initialiser of the cell has run
    threads,        \* the commands that are running, one a thread
    image,          \* a call of save_pasted_image
    disk,           \* the images directory and the file, as the file system has them
    trace,          \* the steps that call has taken
    pc

vars == <<markdown, options, lines, i, blocks, result, in_code_block, code_fence,
          code_lang, code_content, block_counter, html, fs, srcs, resolved, first,
          once, registry, init_count, threads, image, disk, trace, pc>>

highlighter == <<once, registry, init_count, threads>>
saver == <<image, disk, trace>>

extractor == <<lines, i, blocks, result, in_code_block, code_fence, code_lang,
               code_content, block_counter>>

\* (processed_md, special_blocks) of commands.rs line 40
processed_md == result
special_blocks == blocks

InitExtractor ==
    /\ i = 1
    /\ blocks = <<>>
    /\ result = <<>>
    /\ in_code_block = FALSE
    /\ code_fence = <<>>
    /\ code_lang = <<>>
    /\ code_content = <<>>
    /\ block_counter = 0

\* No highlight has been asked for: highlighter.rs line 8, the cell is empty.
InitHighlighter ==
    /\ once = "incomplete"
    /\ registry = <<>>
    /\ init_count = 0
    /\ threads = <<>>

\* No image is being saved.
InitSaver ==
    /\ image = <<>>
    /\ disk = <<>>
    /\ trace = <<>>

Init ==
    /\ markdown \in Documents
    /\ options \in OptionSet
    /\ lines = Lines(markdown)
    /\ InitExtractor
    /\ html = <<>>
    /\ fs = "missing"
    /\ srcs = <<>>
    /\ resolved = <<>>
    /\ first = <<>>
    /\ InitHighlighter
    /\ InitSaver
    /\ pc = "scan"

line == lines[i]
trimmed == TrimStart(line)

InLoop == pc = "scan" /\ i <= Len(lines)

\* Closes without the marker test of line 38: any fence line ends the block.
ClosesAnyFence == in_code_block

\* The line ends the open block only when nothing follows the marker.
ClosesBareFence ==
    in_code_block /\ StartsWith(trimmed, code_fence) /\ Trim(Tail(trimmed)) = <<>>

\* line 38: the line ends the open block
Closes == in_code_block /\ StartsWith(trimmed, code_fence)

\* The reset of lines 62-64 without the clear of line 65.
ClearFenceKeepsContent ==
    /\ in_code_block' = FALSE
    /\ code_fence' = <<>>
    /\ code_lang' = <<>>
    /\ code_content' = code_content

\* lines 62-65
ClearFence ==
    /\ in_code_block' = FALSE
    /\ code_fence' = <<>>
    /\ code_lang' = <<>>
    /\ code_content' = <<>>

rest == <<markdown, options, lines, html, fs, srcs, resolved, first, highlighter, saver>>

\* lines 38-55, 62-65: a matching fence closes a mermaid or chart block
CloseSpecial ==
    /\ InLoop
    /\ IsFenceLine(trimmed)
    /\ Closes
    /\ IsSpecialLang(code_lang)
    /\ blocks' = Append(blocks, SpecialBlock(code_lang, code_content, block_counter))
    /\ block_counter' = block_counter + 1
    /\ result' = result \o PlaceholderDiv(ToLowercase(code_lang), PlaceholderId(block_counter))
    /\ ClearFence
    /\ i' = i + 1
    /\ UNCHANGED <<rest, pc>>

\* lines 38-41, 56-65: a matching fence closes a regular block
CloseRegular ==
    /\ InLoop
    /\ IsFenceLine(trimmed)
    /\ Closes
    /\ ~IsSpecialLang(code_lang)
    /\ result' = result \o RegularFence(code_fence[1], code_lang, code_content)
    /\ ClearFence
    /\ i' = i + 1
    /\ UNCHANGED <<rest, blocks, block_counter, pc>>

\* lines 66-71
OpenFence ==
    /\ InLoop
    /\ IsFenceLine(trimmed)
    /\ ~Closes
    /\ ~in_code_block
    /\ in_code_block' = TRUE
    /\ code_fence' = <<FenceOf(trimmed)>>
    /\ code_lang' = LangOf(trimmed)
    /\ i' = i + 1
    /\ UNCHANGED <<rest, blocks, result, code_content, block_counter, pc>>

\* lines 72-76: the other fence type inside a block is content
OtherFence ==
    /\ InLoop
    /\ IsFenceLine(trimmed)
    /\ ~Closes
    /\ in_code_block
    /\ code_content' = code_content \o line \o <<NL>>
    /\ i' = i + 1
    /\ UNCHANGED <<rest, blocks, result, in_code_block, code_fence, code_lang,
                   block_counter, pc>>

\* lines 77-79
FenceContent ==
    /\ InLoop
    /\ ~IsFenceLine(trimmed)
    /\ in_code_block
    /\ code_content' = code_content \o line \o <<NL>>
    /\ i' = i + 1
    /\ UNCHANGED <<rest, blocks, result, in_code_block, code_fence, code_lang,
                   block_counter, pc>>

\* PassThrough pushing the trimmed text of line 29 instead of the line.
PassThroughTrimmed ==
    /\ InLoop
    /\ ~IsFenceLine(trimmed)
    /\ ~in_code_block
    /\ result' = result \o trimmed \o <<NL>>
    /\ i' = i + 1
    /\ UNCHANGED <<rest, blocks, in_code_block, code_fence, code_lang, code_content,
                   block_counter, pc>>

\* lines 80-83
PassThrough ==
    /\ InLoop
    /\ ~IsFenceLine(trimmed)
    /\ ~in_code_block
    /\ result' = result \o line \o <<NL>>
    /\ i' = i + 1
    /\ UNCHANGED <<rest, blocks, in_code_block, code_fence, code_lang, code_content,
                   block_counter, pc>>

\* lines 86-92: the end of the input; commands.rs line 40
Return ==
    /\ pc = "scan" /\ i > Len(lines)
    /\ result' = IF in_code_block
                 THEN result \o UnclosedFence(code_fence[1], code_lang, code_content)
                 ELSE result
    /\ pc' = "render"
    /\ UNCHANGED <<rest, i, blocks, in_code_block, code_fence, code_lang,
                   code_content, block_counter>>

\* commands.rs line 43
RenderHtml ==
    /\ pc = "render"
    /\ html' = render_markdown_html(processed_md)
    /\ pc' = "resolve"
    /\ UNCHANGED <<markdown, options, extractor, fs, srcs, resolved, first,
                   highlighter, saver>>

\* commands.rs lines 46-48, base_path is Some
ResolveImages ==
    /\ pc = "resolve"
    /\ options.base_path # None
    /\ \E f \in FsSet :
        /\ fs' = f
        /\ html' = resolve_image_paths(html, options.base_path[1], f)
    /\ pc' = "done"
    /\ UNCHANGED <<markdown, options, extractor, srcs, resolved, first,
                   highlighter, saver>>

\* SkipImages resolving against an empty base path instead of skipping.
SkipImagesResolving ==
    /\ pc = "resolve"
    /\ options.base_path = None
    /\ html' = resolve_image_paths(html, <<>>, "missing")
    /\ pc' = "done"
    /\ UNCHANGED <<markdown, options, extractor, fs, srcs, resolved, first,
                   highlighter, saver>>

\* commands.rs lines 46-54, base_path is None
SkipImages ==
    /\ pc = "resolve"
    /\ options.base_path = None
    /\ pc' = "done"
    /\ UNCHANGED <<markdown, options, extractor, html, fs, srcs, resolved, first,
                   highlighter, saver>>

Next ==
    \/ CloseSpecial
    \/ CloseRegular
    \/ OpenFence
    \/ OtherFence
    \/ FenceContent
    \/ PassThrough
    \/ Return
    \/ RenderHtml
    \/ ResolveImages
    \/ SkipImages

Spec == Init /\ [][Next]_vars

\* RenderResult, commands.rs lines 50-53
RenderResult == [html |-> html, special_blocks |-> special_blocks]

\* ---------------------------------------------- the resolver on its own
\* images.rs, called as its tests call it: one text of images, one base path
InitImages ==
    /\ srcs \in UNION { [1..n -> SrcSet] : n \in 1..MaxImages }
    /\ options \in { [theme |-> "light", base_path |-> Some(b)] : b \in BasePathSet }
    /\ markdown = <<>>
    /\ lines = <<>>
    /\ InitExtractor
    /\ html = <<>>
    /\ fs = "missing"
    /\ resolved = <<>>
    /\ first = <<>>
    /\ InitHighlighter
    /\ InitSaver
    /\ pc = "images"

\* images.rs lines 4-24, on img elements of one form
ResolveHtml ==
    /\ pc = "images"
    /\ \E form \in {"bare", "attrs"}, f \in FsSet :
        /\ html' = Concat([k \in 1..Len(srcs) |-> HtmlImg(srcs[k], form)])
        /\ fs' = f
        /\ resolved' = resolve_image_paths(html', options.base_path[1], f)
    /\ pc' = "html done"
    /\ UNCHANGED <<markdown, options, extractor, srcs, first, highlighter, saver>>

\* images.rs lines 82-93
ResolveMarkdown ==
    /\ pc = "images"
    /\ \E f \in FsSet :
        /\ markdown' = Concat([k \in 1..Len(srcs) |-> MdImg(srcs[k])])
        /\ fs' = f
        /\ resolved' = resolve_markdown_image_paths(markdown', options.base_path[1], f)
    /\ pc' = "markdown done"
    /\ UNCHANGED <<options, extractor, html, srcs, first, highlighter, saver>>

NextImages == ResolveHtml \/ ResolveMarkdown

SpecImages == InitImages /\ [][NextImages]_vars

\* ------------------------------------------------ the highlighter, shared
\* How many commands run at once.
MaxThreads == 2

\* The language tokens and the code strings highlight_code is given.
LangSet == { <<"rust">>, <<"rs">>, <<"unknown_lang_xyz">>, <<"text">> }
CodeSet == { <<"some text">>, <<"fn main() {}", NL, "\"></div>", NL>> }

HighlightInputs == [code : CodeSet, lang : LangSet]

\* A command on its thread: highlight_code_block calls highlight_code once
\* (commands.rs line 66), render_markdown once for each fenced block of the
\* document (parser.rs lines 41-48).
CommandSet ==
    { [cmd |-> "highlight_code_block", calls |-> <<h>>, at |-> "idle", out |-> <<>>] :
        h \in HighlightInputs }
    \cup
    { [cmd |-> "render_markdown", calls |-> q, at |-> "idle", out |-> <<>>] :
        q \in {<<>>} \cup { <<h>> : h \in HighlightInputs } }

InitHighlight ==
    /\ threads \in [1..MaxThreads -> CommandSet]
    /\ once = "incomplete"
    /\ registry = <<>>
    /\ init_count = 0
    /\ markdown = <<>>
    /\ options = [theme |-> "light", base_path |-> None]
    /\ lines = <<>>
    /\ InitExtractor
    /\ html = <<>>
    /\ fs = "missing"
    /\ srcs = <<>>
    /\ resolved = <<>>
    /\ first = <<>>
    /\ InitSaver
    /\ pc = "highlight"

\* The thread has a call of highlight_code still to make.
HasCall(t) == Len(threads[t].out) < Len(threads[t].calls)

idle == <<markdown, options, extractor, html, fs, srcs, resolved, first, saver, pc>>

\* StartInit without the exclusion of the cell: a thread that finds the
\* initialiser running runs it too.
StartInitUnguarded(t) ==
    /\ threads[t].at = "idle" /\ HasCall(t)
    /\ once \in {"incomplete", "running"}
    /\ once' = "running"
    /\ threads' = [threads EXCEPT ![t].at = "init"]
    /\ UNCHANGED <<idle, registry, init_count>>

\* highlighter.rs lines 8, 18: the first use of SYNTAX_SET finds the cell
\* empty and runs SyntaxSet::load_defaults_newlines; a thread that finds
\* the initialiser running waits.
StartInit(t) ==
    /\ threads[t].at = "idle" /\ HasCall(t)
    /\ once = "incomplete"
    /\ once' = "running"
    /\ threads' = [threads EXCEPT ![t].at = "init"]
    /\ UNCHANGED <<idle, registry, init_count>>

\* line 8: the initialiser returns and the cell is set
FinishInit(t) ==
    /\ threads[t].at = "init"
    /\ registry' = <<SyntaxSet>>
    /\ init_count' = init_count + 1
    /\ once' = "complete"
    /\ threads' = [threads EXCEPT ![t].at = "read"]
    /\ UNCHANGED idle

\* line 18: a later use of SYNTAX_SET finds the cell set
Deref(t) ==
    /\ threads[t].at = "idle" /\ HasCall(t)
    /\ once = "complete"
    /\ threads' = [threads EXCEPT ![t].at = "read"]
    /\ UNCHANGED <<idle, once, registry, init_count>>

\* lines 18-31: the grammar is looked up and the lines are written; the
\* error of a line the grammar fails on is dropped (line 28), and the line
\* with it.
Highlight(t) ==
    /\ threads[t].at = "read"
    /\ \E parsed \in BOOLEAN :
          LET h == threads[t].calls[Len(threads[t].out) + 1]
              o == highlight_code(IF parsed THEN h.code ELSE <<>>, h.lang)
          IN  threads' = [threads EXCEPT ![t].out = Append(@, o), ![t].at = "idle"]
    /\ UNCHANGED <<idle, once, registry, init_count>>

\* The command returns.
Finish(t) ==
    /\ threads[t].at = "idle" /\ ~HasCall(t)
    /\ threads' = [threads EXCEPT ![t].at = "done"]
    /\ UNCHANGED <<idle, once, registry, init_count>>

NextHighlight ==
    \E t \in 1..MaxThreads :
        \/ StartInit(t)
        \/ FinishInit(t)
        \/ Deref(t)
        \/ Highlight(t)
        \/ Finish(t)

SpecHighlight == InitHighlight /\ [][NextHighlight]_vars

\* --------------------------------------------------- save_pasted_image
\* The base64_data a paste sends: bare or behind a data URL prefix, well
\* formed or not.
Base64Set ==
    { <<"QUJD">>,
      <<"data:image/png;base64", ",", "QUJD">>,
      <<"not base64!">>,
      <<"data:image/png;base64", ",", "not base64!">> }

FilenameSet == { None, Some("shot.png") }

\* What SystemTime::now gives, in milliseconds.
TimestampSet == { "1700000000000", "1700000000001" }

RECURSIVE LastComma(_, _)
LastComma(s, k) == IF k = 0 \/ s[k] = "," THEN k ELSE LastComma(s, k - 1)

\* commands.rs lines 132-136: what follows the last comma, or all of it
DataOf(base64_data) ==
    SubSeq(base64_data, LastComma(base64_data, Len(base64_data)) + 1, Len(base64_data))

\* line 139: STANDARD.decode, None where the text is not base64
Decode(data) ==
    CASE data = <<"QUJD">> -> Some(<<"A", "B", "C">>)
      [] data = <<>>       -> Some(<<>>)
      [] OTHER             -> None

\* Result<String, String>
Ok(x) == [ok |-> TRUE, value |-> x]
Err(e) == [ok |-> FALSE, value |-> e]

InitSave ==
    /\ image \in { [base64_data |-> d, base_path |-> b, filename |-> f, at |-> "decode",
                    bytes |-> None, ret |-> None] :
                     d \in Base64Set, b \in BasePathSet, f \in FilenameSet }
    /\ disk \in { [images_dir |-> e, at_call |-> e, file |-> None] : e \in BOOLEAN }
    /\ trace = <<>>
    /\ markdown = <<>>
    /\ options = [theme |-> "light", base_path |-> None]
    /\ lines = <<>>
    /\ InitExtractor
    /\ html = <<>>
    /\ fs = "missing"
    /\ srcs = <<>>
    /\ resolved = <<>>
    /\ first = <<>>
    /\ InitHighlighter
    /\ pc = "save"

unsaved == <<markdown, options, extractor, html, fs, srcs, resolved, first, highlighter, pc>>

Step(name, ok) == [step |-> name, ok |-> ok]

\* lines 132-140: the data decodes
DecodeBase64 ==
    /\ image.at = "decode"
    /\ Decode(DataOf(image.base64_data)) # None
    /\ image' = [image EXCEPT !.bytes = Decode(DataOf(image.base64_data)), !.at = "dir"]
    /\ trace' = Append(trace, Step("decode", TRUE))
    /\ UNCHANGED <<unsaved, disk>>

\* DecodeFails going on with no bytes instead of returning the error.
DecodeFailsIgnored ==
    /\ image.at = "decode"
    /\ Decode(DataOf(image.base64_data)) = None
    /\ image' = [image EXCEPT !.bytes = Some(<<>>), !.at = "dir"]
    /\ trace' = Append(trace, Step("decode", FALSE))
    /\ UNCHANGED <<unsaved, disk>>

\* lines 138-140: the data does not decode, the ? returns the error
DecodeFails ==
    /\ image.at = "decode"
    /\ Decode(DataOf(image.base64_data)) = None
    /\ image' = [image EXCEPT !.ret = Some(Err("Failed to decode base64")),
                              !.at = "returned"]
    /\ trace' = Append(trace, Step("decode", FALSE))
    /\ UNCHANGED <<unsaved, disk>>

\* lines 147-148: the images directory is there already
ImagesDirExists ==
    /\ image.at = "dir"
    /\ disk.images_dir
    /\ image' = [image EXCEPT !.at = "write"]
    /\ UNCHANGED <<unsaved, disk, trace>>

\* lines 147-150: the images directory is made
CreateImagesDir ==
    /\ image.at = "dir"
    /\ ~disk.images_dir
    /\ disk' = [disk EXCEPT !.images_dir = TRUE]
    /\ image' = [image EXCEPT !.at = "write"]
    /\ trace' = Append(trace, Step("create_dir", TRUE))
    /\ UNCHANGED unsaved

\* lines 148-150: create_dir_all fails, the ? returns the error
CreateImagesDirFails ==
    /\ image.at = "dir"
    /\ ~disk.images_dir
    /\ image' = [image EXCEPT !.ret = Some(Err("Failed to create images dir")),
                              !.at = "returned"]
    /\ trace' = Append(trace, Step("create_dir", FALSE))
    /\ UNCHANGED <<unsaved, disk>>

\* lines 153-159: the file name given, or one made of the time
FileNameOf(filename, timestamp) ==
    IF filename # None THEN <<filename[1]>>
    ELSE <<"pasted-image-", timestamp, ".png">>

\* lines 161-167: the bytes are written and the relative path returned
WriteImage ==
    /\ image.at = "write"
    /\ \E timestamp \in TimestampSet :
          LET file_name == FileNameOf(image.filename, timestamp) IN
          /\ disk' = [disk EXCEPT !.file = Some([name |-> file_name, bytes |-> image.bytes[1]])]
          /\ image' = [image EXCEPT !.ret = Some(Ok(<<"images/">> \o file_name)),
                                    !.at = "returned"]
    /\ trace' = Append(trace, Step("write", TRUE))
    /\ UNCHANGED unsaved

\* line 164: fs::write fails, the ? returns the error
WriteImageFails ==
    /\ image.at = "write"
    /\ image' = [image EXCEPT !.ret = Some(Err("Failed to write image")),
                              !.at = "returned"]
    /\ trace' = Append(trace, Step("write", FALSE))
    /\ UNCHANGED <<unsaved, disk>>

NextSave ==
    \/ DecodeBase64
    \/ DecodeFails
    \/ ImagesDirExists
    \/ CreateImagesDir
    \/ CreateImagesDirFails
    \/ WriteImage
    \/ WriteImageFails

SpecSave == InitSave /\ [][NextSave]_vars

\* ------------------------------------------- the extractor on its own output
\* special_blocks.rs lines 86-92, and a second call of lines 19-26 on the
\* processed markdown the first returned
ExtractAgain ==
    /\ pc = "scan" /\ i > Len(lines)
    /\ first = None
    /\ LET md == IF in_code_block
                 THEN result \o UnclosedFence(code_fence[1], code_lang, code_content)
                 ELSE result
       IN  /\ first' = Some([markdown |-> markdown, processed_md |-> md,
                             special_blocks |-> blocks])
           /\ markdown' = md
           /\ lines' = Lines(md)
    /\ i' = 1
    /\ blocks' = <<>>
    /\ result' = <<>>
    /\ in_code_block' = FALSE
    /\ code_fence' = <<>>
    /\ code_lang' = <<>>
    /\ code_content' = <<>>
    /\ block_counter' = 0
    /\ UNCHANGED <<options, html, fs, srcs, resolved, highlighter, saver, pc>>

\* special_blocks.rs lines 86-92 of the second call
ReturnAgain ==
    /\ pc = "scan" /\ i > Len(lines)
    /\ first # None
    /\ result' = IF in_code_block
                 THEN result \o UnclosedFence(code_fence[1], code_lang, code_content)
                 ELSE result
    /\ pc' = "twice"
    /\ UNCHANGED <<rest, i, blocks, in_code_block, code_fence, code_lang,
                   code_content, block_counter>>

NextTwice ==
    \/ CloseSpecial
    \/ CloseRegular
    \/ OpenFence
    \/ OtherFence
    \/ FenceContent
    \/ PassThrough
    \/ ExtractAgain
    \/ ReturnAgain

SpecTwice == Init /\ [][NextTwice]_vars

\* ------------------------------------------------- the fences of the input
\* The fenced blocks of the document as section 4.1 of the specification
\* reads them off the input lines alone: a fence opens at a marker line
\* outside any fence and closes at the next line whose trimmed text begins
\* with the same marker (close = 0: the input ends first).
MarkerOf(l) == Head(TrimStart(l))
TagOf(l) == Trim(Tail(TrimStart(l)))
IsMarkerLine(l) == TrimStart(l) # <<>> /\ MarkerOf(l) \in {BT, TL}

RECURSIVE NextWith(_, _, _)
NextWith(ls, k, m) ==
    IF k > Len(ls) THEN 0
    ELSE IF IsMarkerLine(ls[k]) /\ MarkerOf(ls[k]) = m THEN k
    ELSE NextWith(ls, k + 1, m)

RECURSIVE Fences(_, _)
Fences(ls, k) ==
    IF k > Len(ls) THEN <<>>
    ELSE IF ~IsMarkerLine(ls[k]) THEN Fences(ls, k + 1)
    ELSE LET c == NextWith(ls, k + 1, MarkerOf(ls[k])) IN
         IF c = 0 THEN <<[open |-> k, close |-> 0]>>
         ELSE <<[open |-> k, close |-> c]>> \o Fences(ls, c + 1)

\* The spellings of the reserved tags.
MermaidTags == {<<"mermaid">>, <<"MERMAID">>, <<"Mermaid">>}
ChartTags == {<<"chart">>, <<"Chart">>, <<"CHART">>}
ReservedTags == MermaidTags \cup ChartTags

InputFences == Fences(lines, 1)
IsClosed(f) == f.close # 0
IsReserved(f) == TagOf(lines[f.open]) \in ReservedTags
ClosedReserved == SelectSeq(InputFences, LAMBDA f : IsClosed(f) /\ IsReserved(f))

\* The content lines of a fence, each with its newline.
ContentOf(f) ==
    Concat([k \in 1..((IF IsClosed(f) THEN f.close ELSE Len(lines) + 1) - f.open - 1)
              |-> lines[f.open + k] \o <<NL>>])

Extracted == pc # "scan"

\* The number of places of a text where one of the lexemes ts stands.
Occurrences(text, ts) == Cardinality({p \in 1..Len(text) : text[p] \in ts})

\* C1: a document with N closed fences of a reserved tag gives exactly N
\* special blocks, in document order, with the ids special-block-0 ..
\* special-block-(N-1), and the processed markdown holds exactly N
\* occurrences of those ids.
C1_ExactlyNOccurrences ==
    Extracted =>
        LET N == Len(ClosedReserved) IN
        /\ Len(blocks) = N
        /\ \A k \in 1..Len(blocks) :
              /\ blocks[k].placeholder_id = PlaceholderId(k - 1)
              /\ blocks[k].content = Trim(ContentOf(ClosedReserved[k]))
        /\ Occurrences(processed_md, {PlaceholderId(k) : k \in 0..(N - 1)}) = N

\* The placeholder ids that are the id attribute of an element of h.
IdsIn(h) ==
    { h[p] : p \in { q \in 2..Len(h) :
                       /\ h[q - 1] = "\" id=\""
                       /\ h[q] \in {PlaceholderId(k) : k \in 0..Len(lines)} } }

\* C2: every placeholder id the html of a render result refers to has
\* exactly one entry in special_blocks, and every entry's id is referred to
\* in the html.
C2_PlaceholdersPaired ==
    pc = "done" =>
        /\ \A id \in IdsIn(RenderResult.html) :
              Cardinality({k \in 1..Len(RenderResult.special_blocks) :
                             RenderResult.special_blocks[k].placeholder_id = id}) = 1
        /\ \A k \in 1..Len(RenderResult.special_blocks) :
              RenderResult.special_blocks[k].placeholder_id \in IdsIn(RenderResult.html)

\* C3: a closed fence whose tag is not reserved is written to the processed
\* markdown when its closing line is read, after everything written for the
\* lines before it: its marker, its tag, its content lines unchanged and its
\* marker again; nothing is written while it is open, and no special block
\* is made for it.
C3_RegularFencePreserved ==
    [][\A n \in 1..Len(InputFences) :
          LET f == InputFences[n] IN
          (pc = "scan" /\ IsClosed(f) /\ ~IsReserved(f)) =>
              /\ (i \in f.open..(f.close - 1)) => (result' = result /\ blocks' = blocks)
              /\ (i = f.close) =>
                    /\ result' = result \o <<MarkerOf(lines[f.open])>>
                                     \o TagOf(lines[f.open]) \o <<NL>>
                                     \o ContentOf(f)
                                     \o <<MarkerOf(lines[f.open]), NL>>
                    /\ blocks' = blocks]_vars

C3_Witness ==
    /\ pc = "render"
    /\ \E n \in 1..Len(InputFences) :
          /\ IsClosed(InputFences[n]) /\ ~IsReserved(InputFences[n])
          /\ InputFences[n].close > InputFences[n].open + 1
          /\ TagOf(lines[InputFences[n].open]) = <<"rust">>

\* C4: a line read outside any fence that is no marker line is appended to
\* the processed markdown unchanged with one newline after it, and leaves
\* the fence state and the block list as they were.
C4_OutsideLinesPassThrough ==
    [][(pc = "scan" /\ i <= Len(lines) /\ ~in_code_block /\ ~IsMarkerLine(lines[i])) =>
          /\ result' = result \o lines[i] \o <<NL>>
          /\ UNCHANGED <<in_code_block, code_fence, code_lang, code_content,
                         blocks, block_counter>>]_vars

C4_Witness ==
    /\ pc = "scan" /\ i = 3 /\ ~in_code_block
    /\ ~IsMarkerLine(lines[1]) /\ ~IsMarkerLine(lines[2])
    /\ lines[1] # lines[2]
    /\ result = lines[1] \o <<NL>> \o lines[2] \o <<NL>>
    /\ TrimStart(lines[1]) # lines[1]

\* C5: inside a fence, a line that begins with the other marker leaves the
\* scanner in the same fence and is appended to the buffered content; a
\* fence is opened only from outside any fence.
C5_OtherMarkerIsContent ==
    [][/\ (/\ pc = "scan" /\ i <= Len(lines) /\ in_code_block
           /\ IsMarkerLine(lines[i]) /\ <<MarkerOf(lines[i])>> # code_fence) =>
              /\ in_code_block'
              /\ UNCHANGED <<code_fence, code_lang, result, blocks, block_counter>>
              /\ code_content' = code_content \o lines[i] \o <<NL>>
       /\ (in_code_block /\ in_code_block') => UNCHANGED <<code_fence, code_lang>>
       /\ (~in_code_block /\ in_code_block') =>
              /\ IsMarkerLine(lines[i])
              /\ code_fence' = <<MarkerOf(lines[i])>>]_vars

C5_Witness ==
    /\ pc = "scan" /\ i = 3 /\ in_code_block
    /\ code_fence = <<BT>>
    /\ IsMarkerLine(lines[2]) /\ MarkerOf(lines[2]) = TL
    /\ code_content = lines[2] \o <<NL>>

EndsWith(s, t) == Len(s) >= Len(t) /\ SubSeq(s, Len(s) - Len(t) + 1, Len(s)) = t

\* C6: when the input ends inside a fence, the processed markdown ends with
\* the marker, the tag and every content line of that fence, and no special
\* block is made for it, whatever its tag.
C6_UnclosedFenceFlushed ==
    Extracted =>
        \A n \in 1..Len(InputFences) :
            LET f == InputFences[n] IN
            ~IsClosed(f) =>
                /\ EndsWith(processed_md,
                            <<MarkerOf(lines[f.open])>> \o TagOf(lines[f.open]) \o <<NL>>
                                \o ContentOf(f))
                /\ Len(blocks) = Len(ClosedReserved)
                /\ \A k \in 1..Len(blocks) :
                      blocks[k].content = Trim(ContentOf(ClosedReserved[k]))

C6_Witness ==
    /\ pc = "render"
    /\ InputFences # <<>>
    /\ LET f == InputFences[Len(InputFences)] IN
          /\ ~IsClosed(f) /\ IsReserved(f)
          /\ f.open + 2 = Len(lines)
    /\ blocks = <<>>

\* C7: the tag of a fence is compared without regard to letter case: every
\* closed fence whose tag is a spelling of mermaid or of chart gives a
\* special block, and its block_type is the lower-case token.
C7_CaseInsensitiveTags ==
    Extracted =>
        /\ Len(blocks) = Len(ClosedReserved)
        /\ \A k \in 1..Len(blocks) :
              blocks[k].block_type =
                  IF TagOf(lines[ClosedReserved[k].open]) \in MermaidTags
                  THEN <<"mermaid">> ELSE <<"chart">>

C7_Witness ==
    /\ pc = "render"
    /\ Len(blocks) = 2 /\ Len(ClosedReserved) = 2
    /\ TagOf(lines[ClosedReserved[1].open]) = <<"MERMAID">>
    /\ TagOf(lines[ClosedReserved[2].open]) = <<"mermaid">>
    /\ blocks[1].block_type = blocks[2].block_type

\* C8: render_markdown extracts, then renders the processed markdown, then
\* resolves the image paths of that HTML when and only when base_path is
\* present; without a base_path its html is the output of
\* render_markdown_html.
C8_FixedOrder ==
    /\ pc \in {"scan", "render"} => html = <<>>
    /\ pc \in {"render", "resolve", "done"} => i > Len(lines)
    /\ pc = "resolve" => html = render_markdown_html(processed_md)
    /\ pc = "done" =>
          RenderResult.html =
              IF options.base_path = None
              THEN render_markdown_html(processed_md)
              ELSE resolve_image_paths(render_markdown_html(processed_md),
                                       options.base_path[1], fs)

C8_Witness ==
    /\ pc = "done"
    /\ options.base_path = None
    /\ blocks # <<>>
    /\ \E p \in 1..Len(html) : html[p] = "<img"

RECURSIVE Targets(_, _, _, _)
\* The texts between each lexeme open and the next lexeme close, from k on.
Targets(text, k, open, close) ==
    LET a == FirstAt(text, k, {open}, {})
        c == IF a = 0 THEN 0 ELSE FirstAt(text, a + 1, {close}, {})
    IN  IF a = 0 \/ c = 0 THEN <<>>
        ELSE <<SubSeq(text, a + 1, c - 1)>> \o Targets(text, c + 1, open, close)

\* The image targets of what the resolver returned.
Emitted ==
    IF pc = "html done" THEN Targets(resolved, 1, "src=\"", "\"")
    ELSE Targets(resolved, 1, "](", ")")

Resolved == pc \in {"html done", "markdown done"}

\* C9: a target that begins with http://, https:// or data: is emitted
\* unchanged by resolve_image_paths and by resolve_markdown_image_paths.
C9_RemoteTargetsUnchanged ==
    Resolved =>
        /\ Len(Emitted) = Len(srcs)
        /\ \A k \in 1..Len(srcs) :
              Head(srcs[k]) \in {"http://", "https://", "data:"} => Emitted[k] = srcs[k]

C9_Witness ==
    /\ pc = "html done"
    /\ fs = "file"
    /\ Len(srcs) = 2
    /\ Head(srcs[1]) = "data:"
    /\ Head(srcs[2]) = "https://"
    /\ Len(Emitted) = 2

\* C10: every target the resolver takes for a local path (a file:// target,
\* a POSIX absolute path, a drive-letter path, a relative path) is emitted
\* with the local-path marker in front.
C10_LocalTargetsMarked ==
    Resolved =>
        /\ Len(Emitted) = Len(srcs)
        /\ \A k \in 1..Len(srcs) :
              Head(srcs[k]) \notin {"http://", "https://", "data:", "asset://"} =>
                  Head(Emitted[k]) = LocalFileMarker

\* A target of none of the scheme, absolute-path or drive-letter classes.
Relative(src) ==
    /\ Head(src) \notin {"http://", "https://", "data:", "asset://", "file://", "/"}
    /\ Len(src) >= 2 => src[2] # ":"

\* A POSIX absolute or a relative target.
LocalPath(src) == Head(src) = "/" \/ Relative(src)

\* t is a run of consecutive lexemes of s.
IsSubSeq(t, s) ==
    \E p \in 0..(Len(s) - Len(t)) : SubSeq(s, p + 1, p + Len(t)) = t

\* C11: every image whose target is a POSIX absolute or a relative path is
\* rewritten to a file:// URI of the absolute path, and an input of k such
\* images gives an output with exactly k occurrences of file://.
C11_LocalTargetsAreFileUris ==
    Resolved =>
        /\ Len(Emitted) = Len(srcs)
        /\ \A k \in 1..Len(srcs) :
              LocalPath(srcs[k]) =>
                  /\ Head(Emitted[k]) = "file://"
                  /\ Head(srcs[k]) = "/" => Tail(Emitted[k]) = srcs[k]
        /\ (\A k \in 1..Len(srcs) : LocalPath(srcs[k])) =>
              Occurrences(resolved, {"file://"}) = Len(srcs)

PlainComponents(src) == \A p \in 1..Len(src) : src[p] \notin {".", ".."}

JoinedWithBase(base, src) ==
    CASE base = <<"/", "docs", "/", "file.md">> -> <<"/", "docs", "/">> \o src
      [] base = <<"/", "file.md">>              -> <<"/">> \o src
      [] base = <<"file.md">>                   -> src

\* An absolute path with no "." and no ".." component.
IsCanonical(p) ==
    /\ p # <<>> /\ Head(p) = "/"
    /\ PlainComponents(p)

C18_ScannerInvariant ==
    /\ block_counter = Len(blocks)
    /\ \A a, b \in 1..Len(blocks) :
          a # b => blocks[a].placeholder_id # blocks[b].placeholder_id
    /\ \A k \in 1..Len(blocks) : blocks[k].block_type \in {<<"mermaid">>, <<"chart">>}
    /\ ~in_code_block => code_fence = <<>> /\ code_lang = <<>> /\ code_content = <<>>

C18_Witness ==
    /\ pc = "scan" /\ i = 5
    /\ ~in_code_block
    /\ Len(blocks) = 2
    /\ blocks[1].block_type # blocks[2].block_type
    /\ code_fence = <<>>

\* C19: inside a fence, a line whose trimmed text begins with the marker
\* that opened it closes the fence whatever follows the marker on that
\* line; what follows is not buffered, is not written to the processed
\* markdown, and opens no fence.
C19_TrailingTextCloses ==
    [][(/\ pc = "scan" /\ i <= Len(lines) /\ in_code_block
        /\ IsMarkerLine(lines[i]) /\ <<MarkerOf(lines[i])>> = code_fence) =>
           /\ ~in_code_block'
           /\ code_fence' = <<>> /\ code_lang' = <<>> /\ code_content' = <<>>
           /\ IF code_lang \in ReservedTags
              THEN /\ Len(blocks') = Len(blocks) + 1
                   /\ LET b == blocks'[Len(blocks')] IN
                      /\ b.block_type = ToLowercase(code_lang)
                      /\ b.content = Trim(code_content)
                      /\ result' = result \o PlaceholderDiv(b.block_type, b.placeholder_id)
              ELSE /\ blocks' = blocks
                   /\ result' = result \o code_fence \o code_lang \o <<NL>>
                                    \o code_content \o code_fence \o <<NL>>]_vars

C19_Witness ==
    /\ pc = "scan" /\ i = 4
    /\ ~in_code_block
    /\ lines[1] = <<BT, "mermaid">>
    /\ lines[3] = <<SP, BT, SP, "rust">>
    /\ Len(blocks) = 1
    /\ blocks[1].content = Trim(lines[2])
    /\ blocks[1].content # <<>>

\* C17 as it is claimed, for every markdown input: a second extraction, of
\* the processed markdown of a first, returns that processed markdown
\* unchanged and no block.
C17_IdempotentOnOutput ==
    pc = "twice" =>
        /\ processed_md = first[1].processed_md
        /\ special_blocks = <<>>

\* No line of the text ends with a carriage return once its line terminator
\* is taken off.
NoTrailingCR(text) ==
    \A k \in 1..Len(Lines(text)) :
        LET l == Lines(text)[k] IN l = <<>> \/ l[Len(l)] # CR

\* C17: for every markdown input no line of which ends with a carriage
\* return before its terminator, a second extraction, of the processed
\* markdown of a first, returns that processed markdown unchanged and no
\* block.
C17_IdempotentWithoutTrailingCR ==
    pc = "twice" =>
        (NoTrailingCR(first[1].markdown) =>
            /\ processed_md = first[1].processed_md
            /\ special_blocks = <<>>)

C17_Witness ==
    /\ pc = "twice"
    /\ first[1].special_blocks # <<>>
    /\ in_code_block
    /\ IsSpecialLang(code_lang)
    /\ NoTrailingCR(first[1].markdown)
    /\ processed_md = first[1].processed_md

\* The grammar a language token names, and the one it is an extension of.
GrammarNamed(lang) ==
    IF lang = <<"rust">> THEN <<"source rust">> ELSE <<>>
GrammarOfExtension(lang) ==
    CASE lang = <<"rs">>  -> <<"source rust">>
      [] lang = <<"txt">> -> <<"text plain">>
      [] OTHER            -> <<>>

\* The first of the three lookups that succeeds.
GrammarFor(lang) ==
    IF GrammarNamed(lang) # <<>> THEN GrammarNamed(lang)[1]
    ELSE IF GrammarOfExtension(lang) # <<>> THEN GrammarOfExtension(lang)[1]
    ELSE "text plain"

Reading(t) == threads[t].at = "read"

\* C15: whatever the interleaving of render_markdown and
\* highlight_code_block calls, the grammar registry is initialised exactly
\* once, no call reads it before its initialisation has completed, and no
\* call writes to it once it is initialised.
C15_InitialisedOnce ==
    [][/\ init_count' <= 1
       /\ (\E t \in DOMAIN threads : threads'[t].out # <<>>) => init_count' = 1
       /\ \A t \in DOMAIN threads :
             threads'[t].at = "read" => (once' = "complete" /\ registry' # <<>>)
       /\ once = "complete" => UNCHANGED <<once, registry, init_count>>]_vars

C15_Witness ==
    /\ \A t \in DOMAIN threads : threads[t].at = "done" /\ threads[t].out # <<>>
    /\ threads[1].cmd = "render_markdown"
    /\ threads[2].cmd = "highlight_code_block"
    /\ init_count = 1
    /\ once = "complete"

\* The place of a step of save_pasted_image in the order of the steps.
RankOf(step) ==
    CASE step = "decode"     -> 1
      [] step = "create_dir" -> 2
      [] step = "write"      -> 3

\* The step of that name is in the trace, with that outcome.
Took(name, ok) == \E k \in 1..Len(trace) : trace[k] = Step(name, ok)

\* C16: save_pasted_image decodes, then creates the images directory, then
\* writes the file; a step that fails is the last step taken and the call
\* returns an error: a decode failure creates no directory and writes no
\* file, a directory-creation failure writes no file.
C16_FailureStopsLaterSteps ==
    /\ trace # <<>> => trace[1].step = "decode"
    /\ \A a, b \in 1..Len(trace) :
          a < b => RankOf(trace[a].step) < RankOf(trace[b].step)
    /\ \A k \in 1..Len(trace) :
          ~trace[k].ok =>
              /\ k = Len(trace)
              /\ image.at = "returned"
              /\ image.ret # None /\ ~image.ret[1].ok
    /\ Took("decode", FALSE) => disk.images_dir = disk.at_call /\ disk.file = None
    /\ Took("create_dir", FALSE) => disk.file = None /\ ~disk.images_dir
    /\ disk.file # None => disk.images_dir /\ Took("decode", TRUE)
    /\ (Took("write", TRUE) \/ Took("write", FALSE)) =>
          (disk.at_call \/ Took("create_dir", TRUE))

C16_Witness ==
    /\ image.at = "returned"
    /\ trace = <<Step("decode", TRUE), Step("create_dir", FALSE)>>
    /\ ~image.ret[1].ok
    /\ image.base64_data = <<"data:image/png;base64", ",", "QUJD">>
    /\ disk.file = None

====
